---- MODULE Spec2Model ----
(***************************************************************************)
(* A model of the video relay server.  The repository holds two variants   *)
(* of the same server: src/index.js (multer memory storage, the permission *)
(* grant detached from the response) and src/unnamed/part_000 (multer disk *)
(* storage with a temporary file per upload, the permission grant          *)
(* awaited).  A deployment runs one of them: `variant` is fixed in Init.   *)
(*                                                                         *)
(* Strings the code inspects are modelled by their structure:              *)
(*   - a filename is a sequence of tokens, "." being the dot and every     *)
(*     other token a run of characters without a dot;                      *)
(*   - a content type is a record [type, sub] ("video/webm" is             *)
(*     [type |-> "video", sub |-> "webm"]);                                *)
(*   - a person name is a sequence of characters; "%20" is one percent     *)
(*     escape.                                                             *)
(* The empty sequence stands for a missing (undefined or empty) field.     *)
(*                                                                         *)
(* The remote store and the file system are the environment: each pending  *)
(* call settles with success or failure.  CORS, the rate limiter, multer's *)
(* size limit and the /health route are not modelled.                      *)
(***************************************************************************)
EXTENDS Integers, Sequences, FiniteSets, TLC

VARIABLES variant, fsSyncApi, nodeEnv, now, server, arrivals, uploadsDir, req

vars == <<variant, fsSyncApi, nodeEnv, now, server, arrivals, uploadsDir, req>>

\* Handler instances that can be in flight at the same time.
Requests == {1, 2}

\* Total number of requests the server receives in one run.
MaxArrivals == 2

\* The clock counts ticks; a day has TicksPerDay of them and the clock is
\* followed up to MaxClock.
TicksPerDay == 2

MaxClock == 3

----------------------------------------------------------------------------
(* Content types *)

Mime(t, s) == [type |-> t, sub |-> s]

NoMime == Mime("", "")

\* String.prototype.startsWith('video/')
startsWithVideo(m) == m.type = "video"

----------------------------------------------------------------------------
(* Filenames, path.extname and String.prototype.toLowerCase *)

lowerToken(t) ==
  CASE t = "MP4" -> "mp4"
    [] t = "Mp4" -> "mp4"
    [] t = "WEBM" -> "webm"
    [] t = "MKV" -> "mkv"
    [] t = "AVI" -> "avi"
    [] t = "MOV" -> "mov"
    [] t = "WMV" -> "wmv"
    [] t = "FLV" -> "flv"
    [] t = "M4V" -> "m4v"
    [] t = "XYZ" -> "xyz"
    [] OTHER -> t

\* The extension compared as written, without lower-casing.
toLowerCaseKeep(s) == s

toLowerCase(s) == [i \in 1..Len(s) |-> lowerToken(s[i])]

\* Index of the last "." of f, 0 when f has none.
lastDot(f) ==
  LET dots == {i \in 1..Len(f) : f[i] = "."}
  IN IF dots = {} THEN 0 ELSE CHOOSE i \in dots : \A j \in dots : j <= i

\* path.extname: from the last dot to the end; empty when there is no dot or
\* the only dot is the first character of the name.
extname(f) ==
  LET i == lastDot(f)
  IN IF i <= 1 THEN <<>> ELSE SubSeq(f, i, Len(f))

VideoExtTokens == {"mp4", "webm", "mkv", "avi", "mov", "wmv", "flv", "m4v"}

\* originalname.match(/\.(mp4|webm|mkv|avi|mov|wmv|flv|m4v)$/i)
isVideoExt(f) ==
  /\ Len(f) >= 2
  /\ f[Len(f) - 1] = "."
  /\ lowerToken(f[Len(f)]) \in VideoExtTokens

Unsupported == Mime("error", "UnsupportedFormat")

\* The mimeTypes table; NoMime stands for `undefined`.
mimeTypes(ext) ==
  CASE ext = <<".", "mp4">> -> Mime("video", "mp4")
    [] ext = <<".", "webm">> -> Mime("video", "webm")
    [] ext = <<".", "mkv">> -> Mime("video", "x-matroska")
    [] ext = <<".", "avi">> -> Mime("video", "x-msvideo")
    [] ext = <<".", "mov">> -> Mime("video", "quicktime")
    [] ext = <<".", "wmv">> -> Mime("video", "x-ms-wmv")
    [] ext = <<".", "flv">> -> Mime("video", "x-flv")
    [] ext = <<".", "m4v">> -> Mime("video", "x-m4v")
    [] OTHER -> NoMime

\* src/index.js: mimeTypes[ext] || 'video/mp4'
getCorrectMimeTypeIndex(filename) ==
  LET m == mimeTypes(toLowerCase(extname(filename)))
  IN IF m = NoMime THEN Mime("video", "mp4") ELSE m

\* src/unnamed/part_000: throws `Unsupported video format` when the table has
\* no entry; the thrown error is the value Unsupported.
getCorrectMimeTypeDisk(filename) ==
  LET m == mimeTypes(toLowerCase(extname(filename)))
  IN IF m = NoMime THEN Unsupported ELSE m

getCorrectMimeType(v, filename) ==
  IF v = "index" THEN getCorrectMimeTypeIndex(filename)
  ELSE getCorrectMimeTypeDisk(filename)

----------------------------------------------------------------------------
(* The clock: `now` is what new Date() returns *)

\* now.toISOString().split('T')[0]
dateStr(t) == t \div TicksPerDay

\* now.toTimeString().split(' ')[0].replace(/:/g, '-'); the server's time
\* zone is taken to be UTC.
timeStr(t) == t % TicksPerDay

----------------------------------------------------------------------------
(* Person names *)

isSpace(c) == c = " "

isAlnum(c) == c \in {"A", "l", "B", "7"}

RECURSIVE trimStart(_)
trimStart(s) ==
  IF s # <<>> /\ isSpace(Head(s)) THEN trimStart(Tail(s)) ELSE s

RECURSIVE trimEnd(_)
trimEnd(s) ==
  IF s # <<>> /\ isSpace(s[Len(s)]) THEN trimEnd(SubSeq(s, 1, Len(s) - 1)) ELSE s

\* String.prototype.trim
trim(s) == trimEnd(trimStart(s))

\* .replace(/[^a-zA-Z0-9\s]/g, '')
RECURSIVE stripSpecial(_)
stripSpecial(s) ==
  IF s = <<>> THEN <<>>
  ELSE IF isAlnum(Head(s)) \/ isSpace(Head(s))
       THEN <<Head(s)>> \o stripSpecial(Tail(s))
       ELSE stripSpecial(Tail(s))

\* .replace(/\s+/g, '_')
RECURSIVE collapseSpaces(_)
collapseSpaces(s) ==
  IF s = <<>> THEN <<>>
  ELSE IF isSpace(Head(s))
       THEN <<"_">> \o collapseSpaces(trimStart(s))
       ELSE <<Head(s)>> \o collapseSpaces(Tail(s))

\* personName.trim().replace(/[^a-zA-Z0-9\s]/g, '').replace(/\s+/g, '_')
\* The name stripped and collapsed without the leading trim.
sanitizeNoTrim(p) == collapseSpaces(stripSpecial(p))

sanitizePersonName(p) == collapseSpaces(stripSpecial(trim(p)))

\* decodeURIComponent on the escapes the model's names use.
decodeURIComponent(p) == [i \in 1..Len(p) |-> IF p[i] = "%20" THEN " " ELSE p[i]]

\* The check without its trim: only a missing name is refused.
personNameMissingNoTrim(p) == p = <<>>

\* !personName || personName.trim() === ''
personNameMissing(p) == p = <<>> \/ trim(p) = <<>>

----------------------------------------------------------------------------
(* Sizes *)

\* 50 * 1024 * 1024, the chunked route's threshold in bytes.
ChunkThreshold == 50 * 1024 * 1024

SmallSize == 2 * 1024 * 1024

----------------------------------------------------------------------------
(* Inputs *)

Filenames ==
  { <<"clip", ".", "webm">>, <<"clip", ".", "MOV">>, <<"clip", ".", "xyz">>,
    <<".", "webm">> }

DeclaredTypes == { Mime("video", "webm"), Mime("application", "octet-stream") }

\* The personName field of a multipart body; <<>> is a missing field.
BodyNames == { <<>>, <<" ">>, <<"A", "l", " ", "B">> }

\* The :personName path segment as Express hands it over (decoded once); a
\* path segment is never empty.
ParamNames == { <<" ">>, <<"A", "l", " ", "B">>, <<"%20">> }

ChunkSizes == { ChunkThreshold - 1, ChunkThreshold, ChunkThreshold + 1 }

\* The fileName field of the fix route's JSON body; <<>> is a missing field.
FixNames == { <<>>, <<"x", ".", "webm">>, <<"x", ".", "MOV">>, <<"x", ".", "xyz">>, <<"x">> }

----------------------------------------------------------------------------
(* Responses *)

NoResp ==
  [status |-> 0, format |-> "none", success |-> FALSE, error |-> "",
   fileId |-> FALSE, fileName |-> FALSE, driveLink |-> FALSE, details |-> "",
   uploadDate |-> -1]

\* res.status(s).json({ error, details })
JsonError(s, msg, details) ==
  [NoResp EXCEPT !.status = s, !.format = "json", !.error = msg, !.details = details]

\* res.json({ success: true, fileName, driveLink [, fileId] })
JsonSuccess(withId) ==
  [NoResp EXCEPT !.status = 200, !.format = "json", !.success = TRUE,
                 !.fileId = withId, !.fileName = TRUE, !.driveLink = TRUE]

\* Express's default error handler (the application registers none of its
\* own): status 500 and an HTML page.
DefaultErrorPage ==
  [NoResp EXCEPT !.status = 500, !.format = "html"]

----------------------------------------------------------------------------
(* Requests *)

NoName ==
  [kind |-> "none", person |-> <<>>, date |-> -1, time |-> -1, ext |-> <<>>,
   original |-> <<>>]

Call(op, name, mime) == [op |-> op, name |-> name, mimeType |-> mime, result |-> "pending"]

IdleReq ==
  [pc |-> "idle", route |-> "none", seq |-> 0, attached |-> FALSE,
   originalname |-> <<>>, declared |-> NoMime, filter |-> "none",
   mimetype |-> NoMime, personName |-> <<>>, size |-> 0, fileName |-> <<>>,
   path |-> 0, resolved |-> NoMime, calls |-> <<>>, unlinks |-> 0,
   err |-> "", resp |-> NoResp, nresp |-> 0]

\* res.status(..).json(..) / res.json(..): the handler's response.
Respond(q, resp) == [q EXCEPT !.resp = resp, !.nresp = @ + 1, !.pc = "done"]

\* The result of the pending call `op` becomes `res`.
Settle(calls, op, res) ==
  [i \in 1..Len(calls) |->
     IF calls[i].op = op /\ calls[i].result = "pending"
     THEN [calls[i] EXCEPT !.result = res] ELSE calls[i]]

Pending(q, op) == \E i \in 1..Len(q.calls) : q.calls[i].op = op /\ q.calls[i].result = "pending"

\* `${sanitizedPersonName}_${dateStr}_${timeStr}${fileExtension}`, with the
\* clock read at the call.
createFormattedFileName(personName, originalName) ==
  [kind |-> "formatted", person |-> sanitizePersonName(personName),
   date |-> dateStr(now), time |-> timeStr(now),
   ext |-> extname(originalName), original |-> <<>>]

\* part_000's /upload-video forwards the client's filename unchanged.
originalFileName(originalName) ==
  [kind |-> "original", person |-> <<>>, date |-> -1, time |-> -1, ext |-> <<>>,
   original |-> originalName]

----------------------------------------------------------------------------
(* multer: upload.single('video') *)

\* fileFilter: [outcome, mimetype, resolved]; "threw" is getCorrectMimeType
\* throwing inside the filter.
fileFilter(v, originalname, mimetype) ==
  LET isVideoMime == startsWithVideo(mimetype)
      corrected == getCorrectMimeType(v, originalname)
  IN IF isVideoMime \/ isVideoExt(originalname)
     THEN IF ~isVideoMime /\ isVideoExt(originalname)
          THEN IF corrected = Unsupported
               THEN [outcome |-> "threw", mimetype |-> mimetype, resolved |-> corrected]
               ELSE [outcome |-> "accepted", mimetype |-> corrected, resolved |-> corrected]
          ELSE [outcome |-> "accepted", mimetype |-> mimetype, resolved |-> NoMime]
     ELSE [outcome |-> "rejected", mimetype |-> mimetype, resolved |-> NoMime]

\* The request as the middleware leaves it: req.file is set when the filter
\* accepted the file, and the disk variant has stored it under a fresh name.
multer(v, q) ==
  IF ~q.attached THEN q
  ELSE LET f == fileFilter(v, q.originalname, q.declared)
       IN [q EXCEPT !.filter = f.outcome, !.mimetype = f.mimetype,
                    !.resolved = f.resolved,
                    !.path = IF v = "disk" /\ f.outcome = "accepted" THEN q.seq ELSE 0]

\* req.file is defined
hasFile(q) == q.filter = "accepted"

----------------------------------------------------------------------------
(* The handlers' catch blocks *)

\* process.env.NODE_ENV === 'production' ? 'Internal server error' : error.message
\* (part_000); index.js always sends error.message.
details(v, env, msg) ==
  IF v = "disk" /\ env = "production" THEN "Internal server error" ELSE msg

\* The upload handlers' catch block.  part_000 first removes the temporary
\* file when fs.existsSync finds it (`dir` is the uploads directory), and
\* responds when the unlink has settled.
catchUpload(v, env, q, msg, dir) ==
  IF v = "disk" /\ hasFile(q) /\ q.path \in dir
  THEN [q EXCEPT !.pc = "unlinkErr", !.err = msg]
  ELSE Respond([q EXCEPT !.err = msg],
               JsonError(500, "Failed to upload video", details(v, env, msg)))

\* The fix handler's catch block.
catchFix(v, env, q, msg) ==
  Respond([q EXCEPT !.err = msg],
          JsonError(500, IF v = "index" THEN "Failed to update MIME type"
                         ELSE "Failed to fix MIME type", details(v, env, msg)))

----------------------------------------------------------------------------
(* The handlers, from entry to their first await *)

\* req.file.mimetype.startsWith('video/') ? req.file.mimetype
\*                                        : getCorrectMimeType(req.file.originalname)
correctMimeType(v, q) ==
  IF startsWithVideo(q.mimetype) THEN q.mimetype
  ELSE getCorrectMimeType(v, q.originalname)

\* The grant issued together with the create call instead of after it.
startCreateWithGrant(v, env, q, name, dir) ==
  LET mime == correctMimeType(v, q)
      q1 == IF startsWithVideo(q.mimetype) THEN q ELSE [q EXCEPT !.resolved = mime]
  IN IF mime = Unsupported
     THEN catchUpload(v, env, q1, "Unsupported video format", dir)
     ELSE [q1 EXCEPT !.pc = "create",
                     !.calls = @ \o <<Call("create", name, mime),
                                      Call("grant", NoName, NoMime)>>]

\* Resolve the content type and issue drive.files.create with the metadata
\* { name, parents: [FOLDER_ID], mimeType }.
startCreate(v, env, q, name, dir) ==
  LET mime == correctMimeType(v, q)
      q1 == IF startsWithVideo(q.mimetype) THEN q ELSE [q EXCEPT !.resolved = mime]
  IN IF mime = Unsupported
     THEN catchUpload(v, env, q1, "Unsupported video format", dir)
     ELSE [q1 EXCEPT !.pc = "create", !.calls = Append(@, Call("create", name, mime))]

\* POST /upload-video
uploadVideo(v, env, q, dir) ==
  IF ~hasFile(q)
  THEN Respond(q, JsonError(400, "No video file uploaded", ""))
  ELSE IF v = "index"
       THEN IF personNameMissing(q.personName)
            THEN Respond(q, JsonError(400, "Person name is required", ""))
            ELSE startCreate(v, env, q,
                             createFormattedFileName(q.personName, q.originalname), dir)
       ELSE startCreate(v, env, q, originalFileName(q.originalname), dir)

\* POST /upload-video/:personName
uploadVideoPersonName(v, env, q, dir) ==
  IF ~hasFile(q)
  THEN Respond(q, JsonError(400, "No video file uploaded", ""))
  ELSE IF personNameMissing(q.personName)
       THEN Respond(q, JsonError(400, "Person name is required in URL", ""))
       ELSE startCreate(v, env, q,
                        createFormattedFileName(decodeURIComponent(q.personName),
                                                q.originalname), dir)

\* req.file.size > 50 * 1024 * 1024
useResumable(size) == size > ChunkThreshold

\* POST /upload-video-chunked (index.js only)
uploadVideoChunked(v, env, q, dir) ==
  IF ~hasFile(q)
  THEN Respond(q, JsonError(400, "No video file uploaded", ""))
  ELSE IF personNameMissing(q.personName)
       THEN Respond(q, JsonError(400, "Person name is required", ""))
       ELSE IF useResumable(q.size)
            THEN Respond(q, JsonError(501, "Resumable upload not implemented yet", ""))
            ELSE startCreate(v, env, q,
                             createFormattedFileName(q.personName, q.originalname), dir)

\* PATCH /fix-video-mime/:fileId
fixVideoMime(v, env, q) ==
  IF q.fileName = <<>>
  THEN Respond(q, JsonError(400, "fileName is required in request body", ""))
  ELSE LET mime == getCorrectMimeType(v, q.fileName)
           q1 == [q EXCEPT !.resolved = mime]
       IN IF mime = Unsupported
          THEN catchFix(v, env, q1, "Unsupported video format")
          ELSE [q1 EXCEPT !.pc = "update", !.calls = Append(@, Call("update", NoName, mime))]

\* What upload.single('video') makes of the request before the handler: a
\* file the filter rejects goes to next(err) and Express's default error
\* handler; a filter that throws leaves the request without a response.
afterMulter(q, handled) ==
  IF q.filter = "rejected" THEN Respond(q, DefaultErrorPage)
  ELSE IF q.filter = "threw" THEN [q EXCEPT !.pc = "aborted"]
  ELSE handled

\* The uploads directory once multer has stored the request's file.
stored(q, dir) == IF q.path # 0 THEN dir \cup {q.path} ELSE dir

----------------------------------------------------------------------------
(* Start-up *)

\* index.js binds `fs` to require('fs').  part_000 binds it to
\* require('fs').promises and then calls fs.existsSync, fs.mkdirSync and
\* fs.createReadStream on it: fsSyncApi says whether the binding has those
\* members.  Node's promises API has none of them.
Init ==
  /\ variant \in {"index", "disk"}
  /\ fsSyncApi \in (IF variant = "index" THEN {TRUE} ELSE BOOLEAN)
  \* index.js does not read NODE_ENV.
  /\ nodeEnv \in (IF variant = "index" THEN {"development"}
                  ELSE {"development", "production"})
  /\ now = 0
  /\ server = "starting"
  /\ arrivals = 0
  /\ uploadsDir = {}
  /\ req = [r \in Requests |-> IdleReq]

\* Module load up to app.listen: `if (!fs.existsSync(uploadsDir))` throws a
\* TypeError when the binding has no existsSync, and the process ends.
Startup ==
  /\ server = "starting"
  /\ server' = IF fsSyncApi THEN "listening" ELSE "crashed"
  /\ UNCHANGED <<variant, fsSyncApi, nodeEnv, now, arrivals, uploadsDir, req>>

----------------------------------------------------------------------------
(* A request arrives: multer, then the handler up to its first await *)

NoFile == [attached |-> FALSE, originalname |-> <<>>, declared |-> NoMime]

Files ==
  {NoFile} \cup
  { [attached |-> TRUE, originalname |-> n, declared |-> d] :
      n \in Filenames, d \in DeclaredTypes }

NewUpload(route, f, person, size) ==
  [IdleReq EXCEPT !.route = route, !.seq = arrivals + 1, !.attached = f.attached,
                  !.originalname = f.originalname, !.declared = f.declared,
                  !.mimetype = f.declared, !.personName = person,
                  !.size = IF f.attached THEN size ELSE 0]

\* The slots are interchangeable: a request takes the lowest free one.
CanArrive(r) ==
  /\ server = "listening"
  /\ req[r].pc = "idle"
  /\ \A s \in Requests : s < r => req[s].pc # "idle"
  /\ arrivals < MaxArrivals

\* POST /upload-video with the file drawn from `files` and the body's
\* personName from `names`.
ArriveUploadVideo(r, files, names) ==
  /\ CanArrive(r)
  /\ \E f \in files, person \in names :
       LET q == multer(variant, NewUpload("upload", f, person, SmallSize))
           dir == stored(q, uploadsDir)
       IN /\ req' = [req EXCEPT ![r] =
                       afterMulter(q, uploadVideo(variant, nodeEnv, q, dir))]
          /\ uploadsDir' = dir
  /\ arrivals' = arrivals + 1
  /\ UNCHANGED <<variant, fsSyncApi, nodeEnv, now, server>>

\* POST /upload-video/:personName
ArriveUploadVideoPersonName(r, files, names) ==
  /\ CanArrive(r)
  /\ \E f \in files, person \in names :
       LET q == multer(variant, NewUpload("uploadP", f, person, SmallSize))
           dir == stored(q, uploadsDir)
       IN /\ req' = [req EXCEPT ![r] =
                       afterMulter(q, uploadVideoPersonName(variant, nodeEnv, q, dir))]
          /\ uploadsDir' = dir
  /\ arrivals' = arrivals + 1
  /\ UNCHANGED <<variant, fsSyncApi, nodeEnv, now, server>>

\* POST /upload-video-chunked (index.js only)
ArriveUploadVideoChunked(r, files, names, sizes) ==
  /\ CanArrive(r)
  /\ variant = "index"
  /\ \E f \in files, person \in names, size \in sizes :
       LET q == multer(variant, NewUpload("chunked", f, person, size))
           dir == stored(q, uploadsDir)
       IN /\ req' = [req EXCEPT ![r] =
                       afterMulter(q, uploadVideoChunked(variant, nodeEnv, q, dir))]
          /\ uploadsDir' = dir
  /\ arrivals' = arrivals + 1
  /\ UNCHANGED <<variant, fsSyncApi, nodeEnv, now, server>>

\* PATCH /fix-video-mime/:fileId
ArriveFixVideoMime(r, names) ==
  /\ CanArrive(r)
  /\ \E fileName \in names :
       req' = [req EXCEPT ![r] =
                 fixVideoMime(variant, nodeEnv,
                              [IdleReq EXCEPT !.route = "fix", !.seq = arrivals + 1,
                                              !.fileName = fileName])]
  /\ arrivals' = arrivals + 1
  /\ UNCHANGED <<variant, fsSyncApi, nodeEnv, now, server, uploadsDir>>

\* part_000's handler does not read req.body.personName.
PostUploadVideo(r) ==
  ArriveUploadVideo(r, Files, IF variant = "index" THEN BodyNames ELSE {<<>>})

PostUploadVideoPersonName(r) == ArriveUploadVideoPersonName(r, Files, ParamNames)

PostUploadVideoChunked(r) == ArriveUploadVideoChunked(r, Files, BodyNames, ChunkSizes)

PatchFixVideoMime(r) == ArriveFixVideoMime(r, FixNames)

----------------------------------------------------------------------------
(* The remote store and the file system answer *)

GrantCall == Call("grant", NoName, NoMime)

\* `await drive.files.create(...)` resolves.  index.js issues
\* drive.permissions.create without awaiting it and responds; part_000
\* awaits the grant.
\* index.js's /upload-video and /upload-video/:personName add
\* uploadDate: new Date().toISOString().split('T')[0], read at the response.
createResolved(v, q) ==
  LET q1 == [q EXCEPT !.calls = Append(Settle(@, "create", "ok"), GrantCall)]
  IN IF v = "index"
     THEN Respond(q1, [JsonSuccess(TRUE) EXCEPT
                         !.uploadDate = IF q.route \in {"upload", "uploadP"}
                                        THEN dateStr(now) ELSE -1])
     ELSE [q1 EXCEPT !.pc = "grant"]

CreateSucceeds(r) ==
  /\ req[r].pc = "create"
  /\ req' = [req EXCEPT ![r] = createResolved(variant, req[r])]
  /\ UNCHANGED <<variant, fsSyncApi, nodeEnv, now, server, arrivals, uploadsDir>>

CreateFails(r) ==
  /\ req[r].pc = "create"
  /\ req' = [req EXCEPT ![r] =
               catchUpload(variant, nodeEnv,
                           [req[r] EXCEPT !.calls = Settle(@, "create", "failed")],
                           "create failed", uploadsDir)]
  /\ UNCHANGED <<variant, fsSyncApi, nodeEnv, now, server, arrivals, uploadsDir>>

\* drive.permissions.create resolves: index.js logs; part_000 goes on to
\* `await fs.unlink(req.file.path)`.
grantResolved(v, q) ==
  LET q1 == [q EXCEPT !.calls = Settle(@, "grant", "ok")]
  IN IF v = "index" THEN q1 ELSE [q1 EXCEPT !.pc = "unlink"]

\* drive.permissions.create rejects: index.js's .catch logs a warning;
\* part_000's await throws into the catch block.
grantRejected(v, env, q, dir) ==
  LET q1 == [q EXCEPT !.calls = Settle(@, "grant", "failed")]
  IN IF v = "index" THEN q1
     ELSE catchUpload(v, env, q1, "grant failed", dir)

GrantSucceeds(r) ==
  /\ Pending(req[r], "grant")
  /\ req' = [req EXCEPT ![r] = grantResolved(variant, req[r])]
  /\ UNCHANGED <<variant, fsSyncApi, nodeEnv, now, server, arrivals, uploadsDir>>

GrantFails(r) ==
  /\ Pending(req[r], "grant")
  /\ req' = [req EXCEPT ![r] = grantRejected(variant, nodeEnv, req[r], uploadsDir)]
  /\ UNCHANGED <<variant, fsSyncApi, nodeEnv, now, server, arrivals, uploadsDir>>

\* A catch block that ends without a response once its unlink has settled.
afterUnlinkSilent(v, env, q) ==
  IF q.pc = "unlink" THEN Respond(q, JsonSuccess(FALSE))
  ELSE [q EXCEPT !.pc = "aborted"]

\* The response that follows the settled unlink: the success object after
\* the clean-up of the success path, the 500 after that of the catch block.
afterUnlink(v, env, q) ==
  IF q.pc = "unlink" THEN Respond(q, JsonSuccess(FALSE))
  ELSE Respond(q, JsonError(500, "Failed to upload video", details(v, env, q.err)))

\* An unlink that empties the uploads directory.
UnlinkClearsDirectory(r) ==
  /\ req[r].pc \in {"unlink", "unlinkErr"}
  /\ uploadsDir' = {}
  /\ req' = [req EXCEPT ![r] =
               afterUnlink(variant, nodeEnv, [req[r] EXCEPT !.unlinks = @ + 1])]
  /\ UNCHANGED <<variant, fsSyncApi, nodeEnv, now, server, arrivals>>

\* fs.unlink(req.file.path) removes the file.
UnlinkSucceeds(r) ==
  /\ req[r].pc \in {"unlink", "unlinkErr"}
  /\ uploadsDir' = uploadsDir \ {req[r].path}
  /\ req' = [req EXCEPT ![r] =
               afterUnlink(variant, nodeEnv, [req[r] EXCEPT !.unlinks = @ + 1])]
  /\ UNCHANGED <<variant, fsSyncApi, nodeEnv, now, server, arrivals>>

\* fs.unlink rejects; .catch logs the error and the file stays.
UnlinkFails(r) ==
  /\ req[r].pc \in {"unlink", "unlinkErr"}
  /\ req' = [req EXCEPT ![r] = afterUnlink(variant, nodeEnv, req[r])]
  /\ UNCHANGED <<variant, fsSyncApi, nodeEnv, now, server, arrivals, uploadsDir>>

UpdateSucceeds(r) ==
  /\ req[r].pc = "update"
  /\ req' = [req EXCEPT ![r] =
               Respond([req[r] EXCEPT !.calls = Settle(@, "update", "ok")],
                       JsonSuccess(variant = "index"))]
  /\ UNCHANGED <<variant, fsSyncApi, nodeEnv, now, server, arrivals, uploadsDir>>

UpdateFails(r) ==
  /\ req[r].pc = "update"
  /\ req' = [req EXCEPT ![r] =
               catchFix(variant, nodeEnv,
                        [req[r] EXCEPT !.calls = Settle(@, "update", "failed")],
                        "update failed")]
  /\ UNCHANGED <<variant, fsSyncApi, nodeEnv, now, server, arrivals, uploadsDir>>

\* The request and its detached work are over; the slot takes the next one.
\* A temporary file the request left behind stays in the uploads directory.
Retire(r) ==
  /\ req[r].pc \in {"done", "aborted"}
  /\ ~Pending(req[r], "grant")
  /\ req' = [req EXCEPT ![r] = IdleReq]
  /\ UNCHANGED <<variant, fsSyncApi, nodeEnv, now, server, arrivals, uploadsDir>>

Next ==
  \/ Startup
  \/ \E r \in Requests : PostUploadVideo(r)
  \/ \E r \in Requests : PostUploadVideoPersonName(r)
  \/ \E r \in Requests : PostUploadVideoChunked(r)
  \/ \E r \in Requests : PatchFixVideoMime(r)
  \/ \E r \in Requests : CreateSucceeds(r)
  \/ \E r \in Requests : CreateFails(r)
  \/ \E r \in Requests : GrantSucceeds(r)
  \/ \E r \in Requests : GrantFails(r)
  \/ \E r \in Requests : UnlinkSucceeds(r)
  \/ \E r \in Requests : UnlinkFails(r)
  \/ \E r \in Requests : UpdateSucceeds(r)
  \/ \E r \in Requests : UpdateFails(r)
  \/ \E r \in Requests : Retire(r)

Spec == Init /\ [][Next]_vars

----------------------------------------------------------------------------
(* The formatter and the resolver over a wider range of names: one request
   at a time, the clock fixed at any value *)

Video(n) == [attached |-> TRUE, originalname |-> n, declared |-> Mime("video", "webm")]

Octet(n) ==
  [attached |-> TRUE, originalname |-> n, declared |-> Mime("application", "octet-stream")]

NameFiles ==
  { Video(<<"clip", ".", "MOV">>), Video(<<"clip">>),
    Video(<<"a", ".", "b", ".", "webm">>), Octet(<<"clip", ".", "Mp4">>) }

\* Person names with leading and trailing blanks, runs of blanks and
\* characters the formatter removes.
RichNames ==
  { <<"A", "l">>, <<" ", "A", "l">>, <<"A", "l", " ">>, <<"A", " ", " ", "B">>,
    <<"A", "!", "l", " ", "7">>, <<"!", " ", "A">>, <<"!", "!">> }

ListedNames ==
  { <<"x", ".", e>> : e \in {"mp4", "webm", "mkv", "avi", "mov", "wmv", "flv", "m4v",
                              "MP4", "WEBM", "MKV", "AVI", "MOV", "WMV", "FLV", "M4V",
                              "Mp4"} }

InitNames ==
  /\ variant \in {"index", "disk"}
  /\ fsSyncApi = TRUE
  /\ nodeEnv = "development"
  /\ now \in 0..MaxClock
  /\ server = "starting"
  /\ arrivals = 0
  /\ uploadsDir = {}
  /\ req = [r \in Requests |-> IdleReq]

NamedUploadVideo ==
  ArriveUploadVideo(1, NameFiles, IF variant = "index" THEN RichNames ELSE {<<>>})

NamedUploadVideoPersonName == ArriveUploadVideoPersonName(1, NameFiles, RichNames)

NamedUploadVideoChunked ==
  ArriveUploadVideoChunked(1, NameFiles, RichNames, {ChunkThreshold - 1})

ListedFixVideoMime == ArriveFixVideoMime(1, ListedNames \cup {<<"x", ".", "xyz">>})

NextNames ==
  \/ Startup
  \/ NamedUploadVideo
  \/ NamedUploadVideoPersonName
  \/ NamedUploadVideoChunked
  \/ ListedFixVideoMime
  \/ \E r \in Requests : CreateSucceeds(r)
  \/ \E r \in Requests : CreateFails(r)
  \/ \E r \in Requests : GrantSucceeds(r)
  \/ \E r \in Requests : GrantFails(r)
  \/ \E r \in Requests : UnlinkSucceeds(r)
  \/ \E r \in Requests : UnlinkFails(r)
  \/ \E r \in Requests : UpdateSucceeds(r)
  \/ \E r \in Requests : UpdateFails(r)
  \/ \E r \in Requests : Retire(r)

SpecNames == InitNames /\ [][NextNames]_vars

----------------------------------------------------------------------------
(* The server with a running clock and NODE_ENV free in both versions *)

ClockFiles ==
  { NoFile, Video(<<"clip", ".", "webm">>), Octet(<<"clip", ".", "xyz">>) }

ClockNames == { <<"A", "l">> }

ClockFixNames == { <<>>, <<"x", ".", "webm">>, <<"x", ".", "xyz">> }

InitClock ==
  /\ variant \in {"index", "disk"}
  /\ fsSyncApi \in (IF variant = "index" THEN {TRUE} ELSE BOOLEAN)
  /\ nodeEnv \in {"development", "production"}
  /\ now = 0
  /\ server = "starting"
  /\ arrivals = 0
  /\ uploadsDir = {}
  /\ req = [r \in Requests |-> IdleReq]

\* Time passes between two reads of new Date().
Tick ==
  /\ now < MaxClock
  /\ now' = now + 1
  /\ UNCHANGED <<variant, fsSyncApi, nodeEnv, server, arrivals, uploadsDir, req>>

ClockUploadVideo(r) ==
  ArriveUploadVideo(r, ClockFiles, IF variant = "index" THEN ClockNames ELSE {<<>>})

ClockUploadVideoPersonName(r) == ArriveUploadVideoPersonName(r, ClockFiles, ClockNames)

ClockUploadVideoChunked(r) ==
  ArriveUploadVideoChunked(r, ClockFiles, ClockNames, {ChunkThreshold - 1})

ClockFixVideoMime(r) == ArriveFixVideoMime(r, ClockFixNames)

NextClock ==
  \/ Startup
  \/ Tick
  \/ \E r \in Requests : ClockUploadVideo(r)
  \/ \E r \in Requests : ClockUploadVideoPersonName(r)
  \/ \E r \in Requests : ClockUploadVideoChunked(r)
  \/ \E r \in Requests : ClockFixVideoMime(r)
  \/ \E r \in Requests : CreateSucceeds(r)
  \/ \E r \in Requests : CreateFails(r)
  \/ \E r \in Requests : GrantSucceeds(r)
  \/ \E r \in Requests : GrantFails(r)
  \/ \E r \in Requests : UnlinkSucceeds(r)
  \/ \E r \in Requests : UnlinkFails(r)
  \/ \E r \in Requests : UpdateSucceeds(r)
  \/ \E r \in Requests : UpdateFails(r)
  \/ \E r \in Requests : Retire(r)

SpecClock == InitClock /\ [][NextClock]_vars

----------------------------------------------------------------------------
(* The server whose remote calls and file-system calls all settle *)

NextLive ==
  \/ Startup
  \/ \E r \in Requests : ClockUploadVideo(r)
  \/ \E r \in Requests : ClockUploadVideoPersonName(r)
  \/ \E r \in Requests : ClockUploadVideoChunked(r)
  \/ \E r \in Requests : ClockFixVideoMime(r)
  \/ \E r \in Requests : CreateSucceeds(r)
  \/ \E r \in Requests : CreateFails(r)
  \/ \E r \in Requests : GrantSucceeds(r)
  \/ \E r \in Requests : GrantFails(r)
  \/ \E r \in Requests : UnlinkSucceeds(r)
  \/ \E r \in Requests : UnlinkFails(r)
  \/ \E r \in Requests : UpdateSucceeds(r)
  \/ \E r \in Requests : UpdateFails(r)
  \/ \E r \in Requests : Retire(r)

\* Each pending promise is eventually resolved or rejected.
CallsSettle ==
  \A r \in Requests :
    /\ WF_vars(CreateSucceeds(r) \/ CreateFails(r))
    /\ WF_vars(GrantSucceeds(r) \/ GrantFails(r))
    /\ WF_vars(UnlinkSucceeds(r) \/ UnlinkFails(r))
    /\ WF_vars(UpdateSucceeds(r) \/ UpdateFails(r))

SpecLive == InitClock /\ [][NextLive]_vars /\ CallsSettle

----------------------------------------------------------------------------
(* Vocabulary of the properties *)

Active(r) == req[r].pc # "idle"

Responded(q) == q.resp.status # 0

\* The extension path.extname finds is one of the eight listed ones.
ListedByExtname(f) ==
  LET e == extname(f)
  IN Len(e) = 2 /\ e[1] = "." /\ lowerToken(e[2]) \in VideoExtTokens

\* The name ends in no listed extension, however the extension is read.
Unlisted(f) == ~ListedByExtname(f) /\ ~isVideoExt(f)

\* The content type the table maps the name's extension to.
TableType(f) == mimeTypes(toLowerCase(extname(f)))

\* The filename the request's resolver call was given.
ResolverInput(q) == IF q.route = "fix" THEN q.fileName ELSE q.originalname

BlankName(p) == \A i \in 1..Len(p) : p[i] = " "

NameRequired(v, route) == route \in {"uploadP", "chunked"} \/ (route = "upload" /\ v = "index")

\* The request reached its handler and lacks a required input: no file, a
\* missing or blank person name, or no fileName on the fix route.
ValidationFails(v, q) ==
  \/ q.route = "fix" /\ q.fileName = <<>>
  \/ /\ q.route \in {"upload", "uploadP", "chunked"}
     /\ q.filter \in {"none", "accepted"}
     /\ ~q.attached \/ (NameRequired(v, q.route) /\ BlankName(q.personName))

HasCall(q, op) == \E i \in 1..Len(q.calls) : q.calls[i].op = op

CallResult(q, op, res) ==
  \E i \in 1..Len(q.calls) : q.calls[i].op = op /\ q.calls[i].result = res

FullSuccess(resp) ==
  /\ resp.format = "json" /\ resp.success /\ resp.fileName /\ resp.driveLink
  /\ resp.error = ""

ErrorObject(resp) ==
  /\ resp.format = "json" /\ resp.error # ""
  /\ ~resp.success /\ ~resp.fileName /\ ~resp.driveLink /\ ~resp.fileId

----------------------------------------------------------------------------
(* Properties *)

C3_ValidationMakesNoRemoteCall ==
  \A r \in Requests :
    (Active(r) /\ (ValidationFails(variant, req[r]) \/ req[r].resp.status = 400))
      => /\ req[r].calls = <<>>
         /\ req[r].pc = "done"
         /\ req[r].resp.status = 400
         /\ req[r].nresp = 1

\* C3 witness: a request with a file and a blank person name was answered
\* 400 without any remote call.
C3_Witness ==
  \E r \in Requests :
    /\ hasFile(req[r]) /\ req[r].personName = <<" ">>
    /\ req[r].resp.status = 400 /\ req[r].calls = <<>>

\* C4: within one request a permission grant is only ever attempted after
\* that request's create-object call, and only when the create succeeded.
C4_GrantOnlyAfterCreateSucceeded ==
  \A r \in Requests :
    \A i \in 1..Len(req[r].calls) :
      req[r].calls[i].op = "grant"
        => \E j \in 1..(i - 1) :
             req[r].calls[j].op = "create" /\ req[r].calls[j].result = "ok"

\* C4 witness: one request's grant has been attempted, after its own create
\* succeeded, while the create of another request, which arrived earlier,
\* is still pending.
C4_Witness ==
  \E r, s \in Requests :
    /\ r # s
    /\ HasCall(req[r], "grant")
    /\ CallResult(req[r], "create", "ok")
    /\ Pending(req[s], "create")
    /\ req[s].seq < req[r].seq

\* C5: whenever the resolver was applied to a filename that ends in none of
\* the eight listed extensions, it failed with UnsupportedFormat.
C5_UnknownExtensionFails ==
  \A r \in Requests :
    (req[r].resolved # NoMime /\ Unlisted(ResolverInput(req[r])))
      => req[r].resolved = Unsupported

\* C6: a fix request with an unlisted extension makes no remote call and is
\* answered with the UnsupportedFormat error; with a listed extension it
\* makes exactly one call, an update carrying the mapped content type; it
\* never makes a create or a grant call.
C6_FixerContract ==
  \A r \in Requests :
    (req[r].route = "fix" /\ req[r].fileName # <<>>)
      => /\ ~HasCall(req[r], "create") /\ ~HasCall(req[r], "grant")
         /\ Unlisted(req[r].fileName)
              => /\ req[r].calls = <<>>
                 /\ req[r].err = "Unsupported video format"
         /\ ListedByExtname(req[r].fileName)
              => /\ Len(req[r].calls) = 1
                 /\ req[r].calls[1].op = "update"
                 /\ req[r].calls[1].mimeType = TableType(req[r].fileName)

\* C7: every request rejected for a client-input reason (a file the filter
\* rejects, a failed validation, an unresolvable fileName on the fix route)
\* is answered with status 400.
C7_ClientInputGets400 ==
  \A r \in Requests :
    (Responded(req[r])
       /\ \/ req[r].filter = "rejected"
          \/ ValidationFails(variant, req[r])
          \/ (req[r].route = "fix" /\ req[r].fileName # <<>>
                /\ Unlisted(req[r].fileName) /\ ~req[r].resp.success))
      => req[r].resp.status = 400

\* C8: a request gets at most one response; a response is either the full
\* success object or an error object, never both, and it is JSON.
C8_OneWellFormedResponse ==
  \A r \in Requests :
    /\ req[r].nresp <= 1
    /\ Responded(req[r])
         => /\ FullSuccess(req[r].resp) \/ ErrorObject(req[r].resp)
            /\ ~(FullSuccess(req[r].resp) /\ ErrorObject(req[r].resp))

\* C9: on the chunked route a validated file under the threshold goes to
\* the create-object call, and one at or above the threshold is answered
\* 501 without any remote call.
C9_ChunkedThreshold ==
  \A r \in Requests :
    (req[r].route = "chunked" /\ hasFile(req[r]) /\ ~BlankName(req[r].personName))
      => IF req[r].size < ChunkThreshold
         THEN HasCall(req[r], "create") /\ req[r].resp.status # 501
         ELSE req[r].resp.status = 501 /\ req[r].calls = <<>>

\* C10: the content type of a create-object call is the declared type when
\* that is a video type; otherwise it is the type the table maps the
\* filename's extension to, and there is no create call when the table has
\* none.
C10_CreateContentType ==
  \A r \in Requests :
    \A i \in 1..Len(req[r].calls) :
      req[r].calls[i].op = "create"
        => IF startsWithVideo(req[r].declared)
           THEN req[r].calls[i].mimeType = req[r].declared
           ELSE /\ req[r].calls[i].mimeType # NoMime
                /\ \/ req[r].calls[i].mimeType = TableType(req[r].originalname)
                   \/ req[r].calls[i].mimeType =
                        mimeTypes(<<".", lowerToken(req[r].originalname[Len(req[r].originalname)])>>)

----------------------------------------------------------------------------
(* Properties of the formatter, the person identifier and the resolver *)

\* The person identifier the formatter is given: the URL parameter after
\* the handler's decoding on the person-name route, the body field elsewhere.
PersonIdentifier(q) ==
  IF q.route = "uploadP" THEN decodeURIComponent(q.personName) ELSE q.personName

FormatsName(v, route) == NameRequired(v, route)

KeptChar(c) == isAlnum(c) \/ isSpace(c)

\* Every character outside letters, digits and whitespace removed.
Kept(s) == SelectSeq(s, KeptChar)

\* Each run of whitespace replaced by one underscore.
Collapsed(s) ==
  LET first(i) == ~isSpace(s[i]) \/ i = 1 \/ ~isSpace(s[i - 1])
      idx == SelectSeq([i \in 1..Len(s) |-> i], first)
  IN [k \in 1..Len(idx) |-> IF isSpace(s[idx[k]]) THEN "_" ELSE s[idx[k]]]

\* Leading and trailing whitespace removed.
Trimmed(s) ==
  LET ns == {i \in 1..Len(s) : ~isSpace(s[i])}
  IN IF ns = {} THEN <<>>
     ELSE SubSeq(s, CHOOSE i \in ns : \A j \in ns : i <= j,
                    CHOOSE i \in ns : \A j \in ns : j <= i)

\* The sanitized name in the order the claim gives: remove, collapse, trim.
ClaimedSanitize(p) == Trimmed(Collapsed(Kept(p)))

\* The extension of the original name as written: from the last dot on,
\* empty when the name has no dot after its first character.
VerbatimExt(f) ==
  LET dots == {i \in 2..Len(f) : f[i] = "."}
  IN IF dots = {} THEN <<>>
     ELSE SubSeq(f, CHOOSE i \in dots : \A j \in dots : j <= i, Len(f))

FormattedCreate(q, i) ==
  q.calls[i].op = "create" /\ q.calls[i].name.kind = "formatted"

\* C11: every canonical filename given to a create-object call consists of
\* the person name sanitized in the claimed order (characters outside
\* letters, digits and whitespace removed, whitespace runs collapsed to one
\* underscore, then trimmed), the date and the time of the fixed clock, and
\* the original filename's extension as written.
C11_FormatterShape ==
  \A r \in Requests :
    \A i \in 1..Len(req[r].calls) :
      FormattedCreate(req[r], i)
        => /\ req[r].calls[i].name.person = ClaimedSanitize(PersonIdentifier(req[r]))
           /\ req[r].calls[i].name.date = dateStr(now)
           /\ req[r].calls[i].name.time = timeStr(now)
           /\ req[r].calls[i].name.ext = VerbatimExt(req[r].originalname)

\* The sanitized name in the order of the code: trim, remove, collapse.
TrimmedFirstSanitize(p) == Collapsed(Kept(Trimmed(p)))

\* C11 (amended): every canonical filename given to a create-object call
\* consists of the person name trimmed first, then stripped of the
\* characters outside letters, digits and whitespace, then with whitespace
\* runs collapsed to one underscore; the date and the time of the fixed
\* clock; and the original filename's extension as written.
C11_FormatterTrimsFirst ==
  \A r \in Requests :
    \A i \in 1..Len(req[r].calls) :
      FormattedCreate(req[r], i)
        => /\ req[r].calls[i].name.person = TrimmedFirstSanitize(PersonIdentifier(req[r]))
           /\ req[r].calls[i].name.date = dateStr(now)
           /\ req[r].calls[i].name.time = timeStr(now)
           /\ req[r].calls[i].name.ext = VerbatimExt(req[r].originalname)

\* C11 witness: a name with a leading blank was formatted for a file with an
\* upper-case extension, at a clock past the first day.
C11_Witness ==
  \E r \in Requests :
    \E i \in 1..Len(req[r].calls) :
      /\ FormattedCreate(req[r], i)
      /\ PersonIdentifier(req[r]) = <<" ", "A", "l">>
      /\ req[r].calls[i].name.person = <<"A", "l">>
      /\ req[r].calls[i].name.ext = <<".", "MOV">>
      /\ req[r].calls[i].name.date > 0

\* C12: on every route that formats a canonical filename, a request with a
\* file whose person identifier is empty or whitespace-only, the decoded
\* URL parameter included, is answered 400 and no filename is formatted
\* for it (it makes no remote call).
C12_BlankIdentifierRejected ==
  \A r \in Requests :
    (/\ FormatsName(variant, req[r].route)
     /\ hasFile(req[r])
     /\ BlankName(PersonIdentifier(req[r])))
      => /\ req[r].pc = "done"
         /\ req[r].resp.status = 400
         /\ req[r].calls = <<>>

\* The spellings of a listed extension that differ in case only.
Spellings(e) ==
  CASE e = "mp4" -> {"mp4", "MP4", "Mp4"}
    [] e = "webm" -> {"webm", "WEBM"}
    [] e = "mkv" -> {"mkv", "MKV"}
    [] e = "avi" -> {"avi", "AVI"}
    [] e = "mov" -> {"mov", "MOV"}
    [] e = "wmv" -> {"wmv", "WMV"}
    [] e = "flv" -> {"flv", "FLV"}
    [] e = "m4v" -> {"m4v", "M4V"}

\* The content type the table lists for an extension.
ListedType(e) ==
  CASE e = "mp4" -> Mime("video", "mp4")
    [] e = "webm" -> Mime("video", "webm")
    [] e = "mkv" -> Mime("video", "x-matroska")
    [] e = "avi" -> Mime("video", "x-msvideo")
    [] e = "mov" -> Mime("video", "quicktime")
    [] e = "wmv" -> Mime("video", "x-ms-wmv")
    [] e = "flv" -> Mime("video", "x-flv")
    [] e = "m4v" -> Mime("video", "x-m4v")

\* The name has a base and ends in a spelling of extension e.
HasExtension(f, e) ==
  Len(f) >= 3 /\ f[Len(f) - 1] = "." /\ f[Len(f)] \in Spellings(e)

\* C13: whenever the resolver was applied to a filename whose extension is,
\* in any letter case, one of the eight listed ones, it returned the content
\* type the table lists for that extension; applying it changed nothing of
\* the request but the recorded result.
C13_ResolverMapsListedExtensions ==
  \A r \in Requests :
    \A e \in VideoExtTokens :
      (req[r].resolved # NoMime /\ HasExtension(ResolverInput(req[r]), e))
        => req[r].resolved = ListedType(e)

\* C13 witness: the resolver was applied to x.MKV and x.Mp4 names written in
\* upper or mixed case and returned the listed type.
C13_Witness ==
  \E r \in Requests :
    \/ /\ req[r].route = "fix" /\ req[r].fileName = <<"x", ".", "MKV">>
       /\ req[r].resolved = Mime("video", "x-matroska")
       /\ HasCall(req[r], "update")
    \/ /\ req[r].originalname = <<"clip", ".", "Mp4">>
       /\ req[r].resolved = Mime("video", "mp4")
       /\ HasCall(req[r], "create")

\* C20: every create-object call of a person-name route carries a canonical
\* filename whose sanitized person component is non-empty.
C20_PersonComponentNonEmpty ==
  \A r \in Requests :
    \A i \in 1..Len(req[r].calls) :
      FormattedCreate(req[r], i) => req[r].calls[i].name.person # <<>>

----------------------------------------------------------------------------
(* Properties of requests in flight together *)

----------------------------------------------------------------------------
(* Properties of the error details and of the clock *)

\* C14: in production mode the details of every 500 response are the
\* generic message; a response carries any other details only in
\* development mode.
C14_ProductionDetailsGeneric ==
  \A r \in Requests :
    /\ (nodeEnv = "production" /\ req[r].resp.format = "json" /\ req[r].resp.status = 500)
         => req[r].resp.details = "Internal server error"
    /\ req[r].resp.details \notin {"", "Internal server error"}
         => nodeEnv = "development"

\* C19: in every success response of POST /upload-video and of
\* POST /upload-video/:personName that has an uploadDate, the uploadDate is
\* the date in the name the object was stored under.
C19_UploadDateMatchesName ==
  \A r \in Requests :
    (/\ req[r].route \in {"upload", "uploadP"}
     /\ req[r].resp.status = 200
     /\ req[r].resp.uploadDate # -1)
      => \E i \in 1..Len(req[r].calls) :
           /\ FormattedCreate(req[r], i)
           /\ req[r].calls[i].name.date = req[r].resp.uploadDate

----------------------------------------------------------------------------
(* Progress *)

\* The request in slot r is the n-th to arrive and is inside its handler.
InHandler(r, n) ==
  /\ req[r].seq = n
  /\ req[r].pc \in {"create", "grant", "unlink", "unlinkErr", "update", "done"}

Answered(r, n) == req[r].seq = n /\ Responded(req[r])

====
